---------------------------- MODULE Spec2Model ----------------------------
(***************************************************************************)
(* A model of lzjs 1.2.3 (src/lzjs.js): the LZSS compressor and            *)
(* decompressor, the LZW codec, the UTF-8 bridge and the LZJS dispatcher.  *)
(*                                                                         *)
(* A JavaScript string is a sequence of UTF-16 code units (0..65535).      *)
(* Every loop of a codec is an action that performs its iterations, one a  *)
(* step when the codec is used on its own and up to MaxBurst a step under  *)
(* the dispatcher; the code before and after a loop belongs to the action  *)
(* that enters or leaves it.                                               *)
(***************************************************************************)
EXTENDS Integers, Sequences, FiniteSets, TLC

(***************************************************************************)
(* JavaScript values that are not numbers.  They are kept apart from every *)
(* number the codec computes (all of which lie far above these).           *)
(***************************************************************************)
Undefined == -900001
NaN == -900002
Null == -900003
\* The internal budget-exceeded signal (the JavaScript value false).
False == <<-900004>>
\* ('' + false), what string concatenation makes of the signal.
FalseText == <<102, 97, 108, 115, 101>>

IsNum(x) == x \notin {Undefined, NaN, Null}

\* ToNumber: null is 0, undefined is NaN.
ToNumber(x) == IF x = Null THEN 0 ELSE IF x = Undefined THEN NaN ELSE x

Add(x, y) ==
  LET a == ToNumber(x)
      b == ToNumber(y)
  IN  IF a = NaN \/ b = NaN THEN NaN ELSE a + b

Sub(x, y) ==
  LET a == ToNumber(x)
      b == ToNumber(y)
  IN  IF a = NaN \/ b = NaN THEN NaN ELSE a - b

Mul(x, y) ==
  LET a == ToNumber(x)
      b == ToNumber(y)
  IN  IF a = NaN \/ b = NaN THEN NaN ELSE a * b

\* x < y: false as soon as one side is NaN.
Lt(x, y) ==
  LET a == ToNumber(x)
      b == ToNumber(y)
  IN  a # NaN /\ b # NaN /\ a < b

\* x > y: false as soon as one side is NaN.
Gt(x, y) == Lt(y, x)

\* x !== y on numbers: NaN differs from everything, itself included.
StrictNe(x, y) == x = NaN \/ y = NaN \/ x # y

\* String.fromCharCode(x): ToUint16 of the argument.
fromCharCode(x) == IF ToNumber(x) = NaN THEN 0 ELSE ToNumber(x) % 65536

Min(a, b) == IF a < b THEN a ELSE b
Max(a, b) == IF a > b THEN a ELSE b

\* s.charCodeAt(k), k counted from 0.
CharCodeAt(s, k) == IF k >= 0 /\ k < Len(s) THEN s[k + 1] ELSE NaN

\* s.charAt(k) as a string: empty past the end.
CharAt(s, k) == IF k >= 0 /\ k < Len(s) THEN <<s[k + 1]>> ELSE <<>>

\* s.substring(a, b) for 0 <= a.
Substring(s, a, b) ==
  LET lo == Min(Max(Min(a, b), 0), Len(s))
      hi == Min(Max(Max(a, b), 0), Len(s))
  IN  SubSeq(s, lo + 1, hi)

\* s.slice(a) for a number a or NaN: a negative a counts from the end.
SliceFrom(s, a) ==
  LET n == IF ToNumber(a) = NaN THEN 0 ELSE ToNumber(a)
      from == IF n < 0 THEN Max(Len(s) + n, 0) ELSE Min(n, Len(s))
  IN  SubSeq(s, from + 1, Len(s))

(***************************************************************************)
(* The alphabet and the constants derived from it.                         *)
(***************************************************************************)
esc == {8, 10, 11, 12, 13, 92}

NotEsc(c) == c \notin esc

TABLE == SelectSeq([i \in 1..127 |-> i - 1], NotEsc)

TABLE_LENGTH == Len(TABLE)
TABLE_DIFF == Max(TABLE_LENGTH, 62) - Min(TABLE_LENGTH, 62)
BUFFER_MAX == TABLE_LENGTH - 1

WINDOW_MAX == 1024
WINDOW_BUFFER_MAX == 304

APPLY_BUFFER_SIZE == 65533
COMPRESS_CHUNK_SIZE == APPLY_BUFFER_SIZE
COMPRESS_CHUNK_MAX == COMPRESS_CHUNK_SIZE - TABLE_LENGTH
DECOMPRESS_CHUNK_SIZE == APPLY_BUFFER_SIZE
DECOMPRESS_CHUNK_MAX == DECOMPRESS_CHUNK_SIZE + WINDOW_MAX * 2

LATIN_CHAR_MAX == 11
LATIN_BUFFER_MAX == LATIN_CHAR_MAX * (LATIN_CHAR_MAX + 1)
UNICODE_CHAR_MAX == 40
UNICODE_BUFFER_MAX == UNICODE_CHAR_MAX * (UNICODE_CHAR_MAX + 1)

LATIN_INDEX == TABLE_LENGTH + 1
LATIN_INDEX_START == TABLE_DIFF + 20
UNICODE_INDEX == TABLE_LENGTH + 5

DECODE_MAX == TABLE_LENGTH - TABLE_DIFF - 19
LATIN_DECODE_MAX == UNICODE_CHAR_MAX + 7
CHAR_START == LATIN_DECODE_MAX + 1
COMPRESS_START == CHAR_START + 1
COMPRESS_FIXED_START == COMPRESS_START + 5
COMPRESS_INDEX == COMPRESS_FIXED_START + 5

\* The compressor's table (a Uint8Array of TABLE_LENGTH bytes) read at x:
\* a read outside it is undefined.
CTable(x) == IF x \in 0..(TABLE_LENGTH - 1) THEN TABLE[x + 1] ELSE Undefined

\* A store into the Uint8Array buffer: undefined is stored as 0.
ToUint8(x) == IF IsNum(x) THEN x % 256 ELSE 0

\* The decompressor's reverse table read at the string ch (one character or
\* the empty string): the index of the character in TABLE, else undefined.
DTable(ch) ==
  IF ch # <<>> /\ \E k \in 1..TABLE_LENGTH : TABLE[k] = ch[1]
    THEN (CHOOSE k \in 1..TABLE_LENGTH : TABLE[k] = ch[1]) - 1
    ELSE Undefined

(***************************************************************************)
(* createWindow: the 1024-character prelude.                               *)
(***************************************************************************)
alpha == [k \in 1..26 |-> 96 + k]

\* The inner loop stopping one pair early (j > 16): the pairs no longer fill
\* the window.
RECURSIVE WindowInnerShort(_, _, _)
WindowInnerShort(i, j, win) ==
  IF j > 16 /\ Len(win) < WINDOW_MAX
    THEN WindowInnerShort(i, j - 1, win \o <<32, alpha[i + 1], 32, alpha[j + 1]>>)
    ELSE win

\* The inner for loop for one i: j from len - 1 down while j > 15 and the
\* window is not full.
RECURSIVE WindowInner(_, _, _)
WindowInner(i, j, win) ==
  IF j > 15 /\ Len(win) < WINDOW_MAX
    THEN WindowInner(i, j - 1, win \o <<32, alpha[i + 1], 32, alpha[j + 1]>>)
    ELSE win

\* The outer for loop: i over alpha.
RECURSIVE WindowPairs(_, _)
WindowPairs(i, win) ==
  IF i < Len(alpha)
    THEN WindowPairs(i + 1, WindowInner(i, Len(alpha) - 1, win))
    ELSE win

\* while (win.length < WINDOW_MAX) win = ' ' + win
WindowPad(win) ==
  IF Len(win) < WINDOW_MAX
    THEN [k \in 1..(WINDOW_MAX - Len(win)) |-> 32] \o win
    ELSE win

createWindow == Substring(WindowPad(WindowPairs(0, <<>>)), 0, WINDOW_MAX)

(***************************************************************************)
(* The UTF-8 bridge.                                                       *)
(***************************************************************************)
\* The characters toUTF8 appends for one code unit c.
UTF8Char(c) ==
  IF c < 128 THEN <<fromCharCode(c)>>
  ELSE IF c < 2048
    THEN <<fromCharCode(192 + ((c \div 64) % 32)), fromCharCode(128 + (c % 64))>>
  ELSE IF c < 65536
    THEN <<fromCharCode(224 + ((c \div 4096) % 16)),
           fromCharCode(128 + ((c \div 64) % 64)),
           fromCharCode(128 + (c % 64))>>
  ELSE <<>>

\* What the for loop of toUTF8 appends for data[lo..hi]: the bytes of each
\* code unit, in order.
RECURSIVE UTF8Range(_, _, _)
UTF8Range(data, lo, hi) ==
  IF lo > hi THEN <<>>
  ELSE IF lo = hi THEN UTF8Char(data[lo])
  ELSE LET mid == (lo + hi) \div 2
       IN  UTF8Range(data, lo, mid) \o UTF8Range(data, mid + 1, hi)

toUTF8(data) == UTF8Range(data, 1, Len(data))

\* x & mask for a mask 2^k - 1; NaN converts to 0.
BitAnd(x, mod) == IF ToNumber(x) = NaN THEN 0 ELSE ToNumber(x) % mod

\* The while loop of toUTF16 from position i (counted from 0).
RECURSIVE UTF16Loop(_, _, _)
UTF16Loop(data, i, result) ==
  IF i < Len(data)
    THEN LET c == CharCodeAt(data, i)
             n == c \div 16
         IN  IF n >= 0 /\ n <= 7
               THEN UTF16Loop(data, i + 1, result \o <<fromCharCode(c)>>)
             ELSE IF n >= 12 /\ n <= 13
               THEN LET c2 == CharCodeAt(data, i + 1)
                    IN  UTF16Loop(data, i + 2, result \o
                          <<fromCharCode(BitAnd(c, 32) * 64 + BitAnd(c2, 64))>>)
             ELSE IF n = 14
               THEN LET c2 == CharCodeAt(data, i + 1)
                        c3 == CharCodeAt(data, i + 2)
                    IN  UTF16Loop(data, i + 3, result \o
                          <<fromCharCode(BitAnd(c, 16) * 4096 + BitAnd(c2, 64) * 64
                                         + BitAnd(c3, 64))>>)
             ELSE UTF16Loop(data, i + 1, result)
    ELSE result

toUTF16(data) == UTF16Loop(data, 0, <<>>)

\* byteLength: 1, 2 or 3 per code unit, summed (every unit counts 1, one more
\* from 0x80 and one more from 0x800).
byteLength(data) ==
  Len(data) + Cardinality({k \in 1..Len(data) : data[k] >= 128})
            + Cardinality({k \in 1..Len(data) : data[k] >= 2048})

(***************************************************************************)
(* Options objects: records whose absent fields read as undefined.         *)
(***************************************************************************)
Opt(options, name) ==
  IF name \in DOMAIN options THEN options[name] ELSE Undefined

\* x || d on numbers.
OrElse(x, d) == IF x \in {Undefined, Null, NaN, 0} THEN d ELSE x

(***************************************************************************)
(* LZW.                                                                    *)
(***************************************************************************)
\* The state of a codec that is not running.
Idle == [idle |-> TRUE]

\* LZW.prototype._init
LZWInit(options) ==
  [codeStart |-> OrElse(Opt(options, "codeStart"), 255),
   codeMax |-> OrElse(Opt(options, "codeMax"), 65535),
   maxBytes |-> Opt(options, "maxBytes")]

\* LZW.prototype.compress up to the while loop.
LZWCompressEnter(options, data) ==
  LET this == LZWInit(options)
  IN  IF Len(data) = 0 THEN [returned |-> TRUE, value |-> <<>>] ELSE
      [codeStart |-> this.codeStart, codeMax |-> this.codeMax,
       maxBytes |-> this.maxBytes,
       data |-> data, result |-> <<>>, resultBytes |-> 0,
       i |-> 1, len |-> Len(data), buffer |-> CharAt(data, 0),
       code |-> this.codeStart + 1, codeBytes |-> 2,
       dict |-> <<>>, dictLen |-> {},
       returned |-> FALSE, value |-> <<>>]

\* The bit that 1 << length sets: the shift count is taken modulo 32.
BitOf(length) == length % 32

\* The test of line 513-515: the bitmap (or, from length 32, the presence of
\* dict[length]) and then hasOwnProperty on dict[length].
LZWHasKey(w, key) ==
  LET length == Len(key)
  IN  /\ \/ length < 32 /\ BitOf(length) \in w.dictLen
         \/ length >= 32 /\ length \in DOMAIN w.dict
      /\ length \in DOMAIN w.dict
      /\ key \in DOMAIN w.dict[length]

\* hasOwnProperty.call(undefined, key) throws: the bitmap names a length
\* that dict does not hold.
LZWLookupThrows(w, key) ==
  LET length == Len(key)
  IN  length < 32 /\ BitOf(length) \in w.dictLen /\ length \notin DOMAIN w.dict

\* The emission of buffer with codeBytes charged for a literal too.
LZWEmitCodeBytes(w) ==
  IF Len(w.buffer) = 1
    THEN [w EXCEPT !.result = @ \o w.buffer, !.resultBytes = @ + w.codeBytes]
    ELSE [w EXCEPT !.result = @ \o <<w.dict[Len(w.buffer)][w.buffer]>>,
                   !.resultBytes = @ + w.codeBytes]

\* The emission of buffer (lines 518-524 and 551-557).
LZWEmit(w) ==
  IF Len(w.buffer) = 1
    THEN [w EXCEPT !.result = @ \o w.buffer, !.resultBytes = @ + 1]
    ELSE [w EXCEPT !.result = @ \o <<w.dict[Len(w.buffer)][w.buffer]>>,
                   !.resultBytes = @ + w.codeBytes]

\* "__proto__": dict[length] is an object literal, on which an assignment
\* to this key calls the setter it inherits, which ignores a string.
ProtoKey == <<95, 95, 112, 114, 111, 116, 111, 95, 95>>

\* dict[length][key] = value, creating dict[length] when the bitmap (or the
\* presence test) says it is missing (lines 531-541).
LZWStore(w, key, value) ==
  LET length == Len(key)
      missing == \/ length < 32 /\ BitOf(length) \notin w.dictLen
                 \/ length >= 32 /\ length \notin DOMAIN w.dict
      inner == IF missing \/ length \notin DOMAIN w.dict
                 THEN <<>> ELSE w.dict[length]
      inner2 == IF key = ProtoKey THEN inner
                ELSE [k \in (DOMAIN inner) \cup {key} |->
                        IF k = key THEN value ELSE inner[k]]
  IN  [w EXCEPT !.dict = [l \in (DOMAIN w.dict) \cup {length} |->
                            IF l = length THEN inner2 ELSE w.dict[l]],
                !.dictLen = IF missing THEN @ \cup {BitOf(length)} ELSE @]

\* The test of line 530 inverted: the dictionary never grows.
LZWLearnNever(w, key) ==
  IF w.code > w.codeMax
    THEN LET s == LZWStore(w, key, fromCharCode(w.code))
         IN  [s EXCEPT !.code = @ + 1,
                       !.codeBytes = IF w.code + 1 = 2048 THEN 3 ELSE @]
    ELSE w

\* Lines 530-545 without the test of line 530: the dictionary always grows.
LZWLearnAlways(w, key) ==
  LET s == LZWStore(w, key, fromCharCode(w.code))
  IN  [s EXCEPT !.code = @ + 1,
                !.codeBytes = IF w.code + 1 = 2048 THEN 3 ELSE @]

\* Lines 530-545: the dictionary grows while code <= codeMax.
LZWLearn(w, key) ==
  IF w.code <= w.codeMax
    THEN LET s == LZWStore(w, key, fromCharCode(w.code))
         IN  [s EXCEPT !.code = @ + 1,
                       !.codeBytes = IF w.code + 1 = 2048 THEN 3 ELSE @]
    ELSE w

\* One iteration of the while loop (lines 506-549); w.i < w.len.
LZWCompressIter(w) ==
  LET c == w.data[w.i + 1]
      key == w.buffer \o <<c>>
  IN  IF LZWHasKey(w, key)
        THEN [w EXCEPT !.i = @ + 1, !.buffer = key]
        ELSE LET e == LZWEmit(w)
             IN  IF Gt(e.resultBytes, e.maxBytes)
                   THEN [e EXCEPT !.i = @ + 1, !.returned = TRUE, !.value = False]
                   ELSE [LZWLearn(e, key) EXCEPT !.i = @ + 1, !.buffer = <<c>>]

\* After the loop (lines 551-563).
LZWCompressLeave(w) ==
  LET e == LZWEmit(w)
  IN  IF Gt(e.resultBytes, e.maxBytes)
        THEN [e EXCEPT !.returned = TRUE, !.value = False]
        ELSE [e EXCEPT !.returned = TRUE, !.value = e.result]

\* LZW.prototype.decompress up to the while loop.
LZWDecompressEnter(options, data) ==
  LET this == LZWInit(options)
      ch == <<fromCharCode(CharCodeAt(data, 0))>>
  IN  IF Len(data) = 0 THEN [returned |-> TRUE, value |-> <<>>] ELSE
      [codeStart |-> this.codeStart,
       data |-> data, result |-> ch, dict |-> <<>>,
       code |-> this.codeStart + 1, codeMax |-> this.codeStart,
       i |-> 1, len |-> Len(data), ch |-> ch, prev |-> ch,
       returned |-> FALSE, value |-> <<>>]

\* dict[code] = value on the decoder's object.
LZWDictPut(dict, code, value) ==
  [k \in (DOMAIN dict) \cup {code} |-> IF k = code THEN value ELSE dict[k]]

\* The iteration with prev alone for a code that is not stored yet.
LZWDecompressIterNoKwKwK(w) ==
  LET c == CharCodeAt(w.data, w.i)
      buffer == IF c <= w.codeMax THEN <<fromCharCode(c)>>
                ELSE IF c \in DOMAIN w.dict THEN w.dict[c]
                ELSE w.prev
      ch == CharAt(buffer, 0)
  IN  [w EXCEPT !.i = @ + 1, !.result = @ \o buffer, !.ch = ch,
                !.dict = LZWDictPut(@, w.code, w.prev \o ch),
                !.code = @ + 1, !.prev = buffer]

\* One iteration of the while loop (lines 587-605); w.i < w.len.
LZWDecompressIter(w) ==
  LET c == CharCodeAt(w.data, w.i)
      buffer == IF c <= w.codeMax THEN <<fromCharCode(c)>>
                ELSE IF c \in DOMAIN w.dict THEN w.dict[c]
                ELSE w.prev \o w.ch
      ch == CharAt(buffer, 0)
  IN  [w EXCEPT !.i = @ + 1, !.result = @ \o buffer, !.ch = ch,
                !.dict = LZWDictPut(@, w.code, w.prev \o ch),
                !.code = @ + 1, !.prev = buffer]

\* After the loop (line 607).
LZWDecompressLeave(w) == [w EXCEPT !.returned = TRUE, !.value = w.result]

(***************************************************************************)
(* The LZSS compressor.                                                    *)
(***************************************************************************)
\* Whether needle occurs in hay at position k (counted from 0).
OccursAt(hay, needle, k) ==
  /\ k >= 0
  /\ k + Len(needle) <= Len(hay)
  /\ \A m \in 1..Len(needle) : hay[k + m] = needle[m]

SetMin(S) == CHOOSE x \in S : \A y \in S : x <= y
SetMax(S) == CHOOSE x \in S : \A y \in S : x >= y

\* hay.indexOf(needle)
IndexOf(hay, needle) ==
  LET at == {k \in 0..(Len(hay) - Len(needle)) : OccursAt(hay, needle, k)}
  IN  IF at = {} THEN -1 ELSE SetMin(at)

\* hay.lastIndexOf(needle, limit), limit >= 0
LastIndexOf(hay, needle, limit) ==
  LET at == {k \in 0..Min(limit, Len(hay) - Len(needle)) :
               OccursAt(hay, needle, k)}
  IN  IF at = {} THEN -1 ELSE SetMax(at)

\* The inner do-while of _search (lines 194-198): the value of i when it
\* ends.  It compares at i, then at each following i below len.
SearchExtend(data, offset, j, i, len) ==
  LET top == Max(len, i + 1) - 1
      differ == {k \in i..top :
                   StrictNe(CharCodeAt(data, offset + k), CharCodeAt(data, j + k))}
  IN  IF differ = {} THEN top + 1 ELSE SetMin(differ)

\* The outer do-while of _search (lines 172-205) from the top of one
\* iteration: the values of i and bestIndex when it ends.
RECURSIVE SearchLoop(_, _, _, _, _, _, _, _, _, _)
SearchLoop(data, offset, len, pos, win, limit, i, s, index, bestIndex) ==
  LET s1 == IF i = 2 THEN CharAt(data, offset) \o CharAt(data, offset + 1)
            ELSE IF i = 3 THEN s \o CharAt(data, offset + 2)
            ELSE Substring(data, offset, offset + i)
      index1 == IF i = 2 THEN IndexOf(win, s1) ELSE index
  IN  IF i = 2 /\ (index1 = -1 \/ index1 > limit)
        THEN [i |-> i, bestIndex |-> bestIndex]
        ELSE LET lastIndex == LastIndexOf(win, s1, limit)
             IN  IF lastIndex = -1
                   THEN [i |-> i, bestIndex |-> bestIndex]
                   ELSE LET i2 == SearchExtend(data, offset, pos + lastIndex, i, len)
                        IN  IF index1 = lastIndex
                              THEN [i |-> i2 + 1, bestIndex |-> lastIndex]
                            ELSE IF i2 + 1 < len
                              THEN SearchLoop(data, offset, len, pos, win, limit,
                                              i2 + 1, s1, index1, lastIndex)
                            ELSE [i |-> i2 + 1, bestIndex |-> lastIndex]

\* _search without the cap of line 159: len is all that remains.
LZSSSearchUncapped(data, dataLen, offset) ==
  LET len == dataLen - offset
  IN  IF 2 > len THEN [found |-> FALSE]
      ELSE LET pos == offset - WINDOW_BUFFER_MAX
               win == Substring(data, pos, offset + len)
               limit == offset + 2 - 3 - pos
               r == SearchLoop(data, offset, len, pos, win, limit, 2, <<>>,
                               Undefined, Undefined)
           IN  IF r.i = 2 THEN [found |-> FALSE]
               ELSE [found |-> TRUE, index |-> WINDOW_BUFFER_MAX - r.bestIndex,
                     length |-> r.i - 1]

\* LZSSCompressor.prototype._search: found, and the _index and _length it
\* records when found.
LZSSSearch(data, dataLen, offset) ==
  LET len == IF dataLen - offset < BUFFER_MAX THEN dataLen - offset
             ELSE BUFFER_MAX
  IN  IF 2 > len THEN [found |-> FALSE]
      ELSE LET pos == offset - WINDOW_BUFFER_MAX
               win == Substring(data, pos, offset + len)
               limit == offset + 2 - 3 - pos
               r == SearchLoop(data, offset, len, pos, win, limit, 2, <<>>,
                               Undefined, Undefined)
           IN  IF r.i = 2 THEN [found |-> FALSE]
               ELSE [found |-> TRUE, index |-> WINDOW_BUFFER_MAX - r.bestIndex,
                     length |-> r.i - 1]

\* buffer[i++] = table[x] for each x of used, in order.
LZSSPut(buffer, used) ==
  buffer \o [k \in 1..Len(used) |-> ToUint8(CTable(used[k]))]

\* LZSSCompressor.prototype.compress up to the while loop.
LZSSCompressEnter(options, data) ==
  IF Len(data) = 0
    THEN [returned |-> TRUE, value |-> <<>>]
    ELSE LET win == createWindow
         IN  [maxBytes |-> Opt(options, "maxBytes"),
              data |-> win \o data, dataLen |-> Len(win) + Len(data),
              offset |-> Len(win), matchIndex |-> Undefined,
              matchLength |-> Undefined,
              result |-> <<>>, buffer |-> <<>>, bytes |-> 0,
              index |-> -1, lastIndex |-> -1, used |-> <<>>,
              returned |-> FALSE, value |-> <<>>]

\* The literal with the Unicode page written as index, not as
\* index - TABLE_LENGTH (line 283).
LZSSLiteralRawIndex(z) ==
  LET c == CharCodeAt(z.data, z.offset)
      c1 == IF c < UNICODE_BUFFER_MAX THEN c ELSE c % UNICODE_BUFFER_MAX
      c2 == IF c < UNICODE_BUFFER_MAX THEN 0
            ELSE (c - c1) \div UNICODE_BUFFER_MAX
      index == c2 + UNICODE_INDEX
      c3 == c1 % UNICODE_CHAR_MAX
      c4 == (c1 - c3) \div UNICODE_CHAR_MAX
      lc1 == c % UNICODE_CHAR_MAX
      lindex == ((c - lc1) \div UNICODE_CHAR_MAX) + LATIN_INDEX
      used == IF c < LATIN_BUFFER_MAX
                THEN IF z.lastIndex = lindex THEN <<lc1>>
                     ELSE <<lindex - LATIN_INDEX_START, lc1>>
                ELSE IF z.lastIndex = index THEN <<c3, c4>>
                     ELSE <<CHAR_START, index, c3, c4>>
      page == IF c < LATIN_BUFFER_MAX THEN lindex ELSE index
  IN  [z EXCEPT !.offset = @ + 1, !.index = page, !.lastIndex = page,
                !.used = used, !.buffer = LZSSPut(@, used),
                !.bytes = @ + Len(used)]

\* Lines 239-294: the literal at offset.
LZSSLiteral(z) ==
  LET c == CharCodeAt(z.data, z.offset)
  IN  IF c < LATIN_BUFFER_MAX
        THEN LET c1 == IF c < UNICODE_CHAR_MAX THEN c ELSE c % UNICODE_CHAR_MAX
                 c2 == IF c < UNICODE_CHAR_MAX THEN 0
                       ELSE (c - c1) \div UNICODE_CHAR_MAX
                 index == IF c < UNICODE_CHAR_MAX THEN LATIN_INDEX
                          ELSE c2 + LATIN_INDEX
                 used == IF z.lastIndex = index THEN <<c1>>
                         ELSE <<index - LATIN_INDEX_START, c1>>
             IN  [z EXCEPT !.offset = @ + 1, !.index = index, !.lastIndex = index,
                           !.used = used, !.buffer = LZSSPut(@, used),
                           !.bytes = @ + Len(used)]
        ELSE LET c1 == IF c < UNICODE_BUFFER_MAX THEN c ELSE c % UNICODE_BUFFER_MAX
                 c2 == IF c < UNICODE_BUFFER_MAX THEN 0
                       ELSE (c - c1) \div UNICODE_BUFFER_MAX
                 index == IF c < UNICODE_BUFFER_MAX THEN UNICODE_INDEX
                          ELSE c2 + UNICODE_INDEX
                 c3 == IF c1 < UNICODE_CHAR_MAX THEN c1 ELSE c1 % UNICODE_CHAR_MAX
                 c4 == IF c1 < UNICODE_CHAR_MAX THEN 0
                       ELSE (c1 - c3) \div UNICODE_CHAR_MAX
                 used == IF z.lastIndex = index THEN <<c3, c4>>
                         ELSE <<CHAR_START, index - TABLE_LENGTH, c3, c4>>
             IN  [z EXCEPT !.offset = @ + 1, !.index = index, !.lastIndex = index,
                           !.used = used, !.buffer = LZSSPut(@, used),
                           !.bytes = @ + Len(used)]

\* Lines 296-318: the match that _search recorded.
LZSSMatch(z, m) ==
  LET c1 == IF m.index < BUFFER_MAX THEN m.index ELSE m.index % BUFFER_MAX
      c2 == IF m.index < BUFFER_MAX THEN 0 ELSE (m.index - c1) \div BUFFER_MAX
      used == IF m.length = 2 THEN <<c2 + COMPRESS_FIXED_START, c1>>
              ELSE <<c2 + COMPRESS_START, c1, m.length>>
  IN  [z EXCEPT !.matchIndex = m.index, !.matchLength = m.length,
                !.offset = @ + m.length, !.lastIndex = -1,
                !.used = used, !.buffer = LZSSPut(@, used),
                !.bytes = @ + Len(used)]

\* Lines 321-328: the budget, then the chunk written out when it is full.
LZSSAfterToken(z) ==
  IF Gt(z.bytes, z.maxBytes)
    THEN [z EXCEPT !.returned = TRUE, !.value = False]
  ELSE IF Len(z.buffer) >= COMPRESS_CHUNK_MAX
    THEN [z EXCEPT !.result = @ \o z.buffer, !.buffer = <<>>]
  ELSE z

\* One iteration of the while loop (lines 237-329); z.offset < z.dataLen.
LZSSCompressIter(z) ==
  LET m == LZSSSearch(z.data, z.dataLen, z.offset)
  IN  LZSSAfterToken(IF m.found THEN LZSSMatch(z, m) ELSE LZSSLiteral(z))

\* After the loop (lines 331-338).
LZSSCompressLeave(z) ==
  LET result == IF Len(z.buffer) > 0 THEN z.result \o z.buffer ELSE z.result
  IN  [z EXCEPT !.result = Null, !.buffer = <<>>, !.data = Null,
                !.returned = TRUE, !.value = result]

(***************************************************************************)
(* The LZSS decompressor.                                                  *)
(***************************************************************************)
\* -x
Neg(x) == IF ToNumber(x) = NaN THEN NaN ELSE 0 - ToNumber(x)

\* s.substring(0, length): an undefined end is the end of s.
SubstringTo(s, length) ==
  IF length = Undefined THEN s ELSE Substring(s, 0, length)

\* while (shrink.length < length) shrink += sub   (sub is not empty)
RECURSIVE Shrink(_, _, _)
Shrink(shrink, sub, length) ==
  IF Lt(Len(shrink), length) THEN Shrink(shrink \o sub, sub, length) ELSE shrink

\* A match copied without the loop of lines 445-448: a match longer than its
\* distance comes out short.
LZSSCopyOnce(result, pos, length) ==
  SubstringTo(SliceFrom(SliceFrom(result, 0 - WINDOW_BUFFER_MAX), Neg(pos)),
              length)

\* Lines 441-450: what a match appends to the output.
LZSSCopy(result, pos, length) ==
  LET sub == SubstringTo(SliceFrom(SliceFrom(result, 0 - WINDOW_BUFFER_MAX),
                                   Neg(pos)), length)
  IN  IF sub # <<>> THEN SubstringTo(Shrink(<<>>, sub, length), length)
      ELSE <<>>

\* LZSSDecompressor.prototype.decompress up to the for loop.
LZSSDecompressEnter(data) ==
  IF Len(data) = 0
    THEN [returned |-> TRUE, value |-> <<>>]
    ELSE [data |-> data, result |-> createWindow, out |-> FALSE, index |-> Null,
          len |-> Len(data), offset |-> 0,
          returned |-> FALSE, value |-> <<>>]

\* One iteration of the for loop (lines 405-457), with its offset++;
\* y.offset < y.len.  _onData of lines 454-456 does nothing without an
\* onData callback, and the codecs are made without one.
LZSSDecompressIter(y) ==
  LET c == DTable(CharAt(y.data, y.offset))
      next == DTable(CharAt(y.data, y.offset + 1))
      third == DTable(CharAt(y.data, y.offset + 2))
  IN  IF c = Undefined THEN [y EXCEPT !.offset = @ + 1]
      ELSE IF c < DECODE_MAX
        THEN IF ~y.out
               THEN [y EXCEPT !.offset = @ + 1,
                       !.result = @ \o <<fromCharCode(
                          Add(Mul(y.index, UNICODE_CHAR_MAX), c))>>]
               ELSE [y EXCEPT !.offset = @ + 2,
                       !.result = @ \o <<fromCharCode(
                          Add(Add(Mul(next, UNICODE_CHAR_MAX), c),
                              Mul(UNICODE_BUFFER_MAX, y.index)))>>]
      ELSE IF c < LATIN_DECODE_MAX
        THEN [y EXCEPT !.offset = @ + 1, !.index = c - DECODE_MAX, !.out = FALSE]
      ELSE IF c = CHAR_START
        THEN [y EXCEPT !.offset = @ + 2, !.index = Sub(next, 5), !.out = TRUE]
      ELSE IF c < COMPRESS_INDEX
        THEN IF c < COMPRESS_FIXED_START
               THEN [y EXCEPT !.offset = @ + 3, !.index = Null,
                       !.result = @ \o LZSSCopy(y.result,
                          Add(Mul(c - COMPRESS_START, BUFFER_MAX), next), third)]
               ELSE [y EXCEPT !.offset = @ + 2, !.index = Null,
                       !.result = @ \o LZSSCopy(y.result,
                          Add(Mul(c - COMPRESS_FIXED_START, BUFFER_MAX), next), 2)]
      ELSE [y EXCEPT !.offset = @ + 1]

\* After the loop (lines 459-465).
LZSSDecompressLeave(y) ==
  [y EXCEPT !.result = Null, !.returned = TRUE,
            !.value = Substring(y.result, WINDOW_MAX, Len(y.result))]

(***************************************************************************)
(* The LZJS dispatcher.                                                    *)
(***************************************************************************)
\* type + result: a string, whatever result is.
Tagged(type, result) ==
  <<type>> \o (IF result = False THEN FalseText ELSE result)

\* Lines 631-644, 654, 666: the locals of LZJS.prototype.compress and the
\* branch taken.  dataBytes * 0.9 | 0 is the integer part of 9 * dataBytes / 10.
LZJSLocals(data) ==
  LET dataBytes == byteLength(data)
      asciiLimitBytes == (dataBytes * 9) \div 10
      len == Len(data)
  IN  [dataBytes |-> dataBytes, asciiLimitBytes |-> asciiLimitBytes, len |-> len,
       branch |-> IF dataBytes = len THEN "ascii"
                  ELSE IF dataBytes > len /\ asciiLimitBytes < len THEN "mostlyAscii"
                  ELSE "unicode"]

\* The first codec of each branch (lines 642, 656, 668).
LZJSFirstType(branch) ==
  IF branch = "ascii" THEN 87 ELSE IF branch = "mostlyAscii" THEN 85 ELSE 83

\* The options object of each branch (lines 635-637, 643-644).
LZJSOptions(l) ==
  IF l.branch = "ascii"
    THEN [maxBytes |-> l.dataBytes, codeStart |-> 127, codeMax |-> 2047]
    ELSE [maxBytes |-> l.dataBytes]

\* The dispatcher without the test of byteLength(result) of line 673: U is
\* taken in the last branch whenever LZW stayed within its own count.
LZJSFallbackNoLength(l, type, data, result) ==
  IF type = 83
    THEN IF result = False
           THEN IF l.branch = "unicode" THEN [do |-> "call", type |-> 85]
                ELSE [do |-> "return", type |-> 78, result |-> data]
           ELSE [do |-> "return", type |-> 83, result |-> result]
    ELSE IF result = False
           THEN IF l.branch = "unicode"
                  THEN [do |-> "return", type |-> 78, result |-> data]
                  ELSE [do |-> "call", type |-> 83]
           ELSE [do |-> "return", type |-> type, result |-> result]

\* The dispatcher without its last resort: when the second codec fails too,
\* its type and what it returned are concatenated.
LZJSFallbackNoN(l, type, data, result) ==
  IF type = LZJSFirstType(l.branch)
    THEN IF result = False
           THEN [do |-> "call", type |-> IF type = 83 THEN 85 ELSE 83]
           ELSE [do |-> "return", type |-> type, result |-> result]
    ELSE [do |-> "return", type |-> type, result |-> result]

\* What follows a codec's return of result while the dispatcher tries type
\* (lines 646-653, 658-665, 670-677): "return" with the final type and
\* result, or "call" with the next type to try.
LZJSFallback(l, type, data, result) ==
  IF l.branch = "unicode"
    THEN IF type = 83
           THEN IF result = False THEN [do |-> "call", type |-> 85]
                ELSE [do |-> "return", type |-> 83, result |-> result]
           ELSE IF result = False \/ byteLength(result) > l.dataBytes
                  THEN [do |-> "return", type |-> 78, result |-> data]
                  ELSE [do |-> "return", type |-> 85, result |-> result]
    ELSE IF type # 83
           THEN IF result = False THEN [do |-> "call", type |-> 83]
                ELSE [do |-> "return", type |-> type, result |-> result]
           ELSE IF result = False
                  THEN [do |-> "return", type |-> 78, result |-> data]
                  ELSE [do |-> "return", type |-> 83, result |-> result]

\* _decompressByW without its options: LZW reads the codes from 0x80 to
\* 0xFF of a W payload as characters.
LZJSDecodeOptionsDefault(type) == <<>>

\* The options _decompressByW and _decompressByU give LZW (lines 701-710).
LZJSDecodeOptions(type) ==
  IF type = 87 THEN [codeStart |-> 127, codeMax |-> 2047] ELSE <<>>

\* decompress stripping the first character whatever it is: an unknown tag
\* is treated like N.
LZJSRouteStrip(data) ==
  LET type == CharAt(data, 0)
      rest == Substring(data, 1, Len(data))
  IN  IF Len(data) = 0 THEN [do |-> "return", value |-> <<>>]
      ELSE IF type = <<83>> THEN [do |-> "S", value |-> rest]
      ELSE IF type = <<87>> THEN [do |-> "W", value |-> rest]
      ELSE IF type = <<85>> THEN [do |-> "U", value |-> rest]
      ELSE [do |-> "return", value |-> rest]

\* Lines 683-696 of LZJS.prototype.decompress: the codec the first character
\* selects ("S", "W" or "U") and the string it gets, or "return" and the
\* string returned at once.
LZJSRoute(data) ==
  LET type == CharAt(data, 0)
      rest == Substring(data, 1, Len(data))
  IN  IF Len(data) = 0 THEN [do |-> "return", value |-> <<>>]
      ELSE IF type = <<83>> THEN [do |-> "S", value |-> rest]
      ELSE IF type = <<87>> THEN [do |-> "W", value |-> rest]
      ELSE IF type = <<85>> THEN [do |-> "U", value |-> rest]
      ELSE IF type = <<78>> THEN [do |-> "return", value |-> rest]
      ELSE [do |-> "return", value |-> data]

(***************************************************************************)
(* The inputs the model runs the program on.                               *)
(***************************************************************************)
\* Longest string of the exhaustive inputs of lzjs.compress.
MaxLen == 4
\* Longest run of 'a' on each side of the one U+00E9 of a mixed input.
MaxPad == 5
\* Longest string handed to lzjs.decompress that compress did not produce.
MaxDecLen == 3
\* Longest input of the LZSS codec over the wide and the narrow characters.
MaxWideLen == 2
MaxNarrowLen == 5
\* Largest byte budget given to the LZSS compressor on its own.
MaxBudget == 2
\* Most characters inserted into an LZSS payload.
MaxJunk == 1
\* Most iterations of a codec's loop in one step of lzjs.compress or
\* lzjs.decompress; a codec used on its own takes one iteration a step.
MaxBurst == 50
\* Longest input of the LZW codec on its own with few codes, and with the
\* options of the dispatcher.
MaxLZWLen == 6
MaxLZWShort == 5

\* The strings over S of length 0..n.
Strings(S, n) == UNION {[1..k -> S] : k \in 0..n}

\* 'a', 'b', DEL (the last ASCII code), U+00E9 (2 bytes of UTF-8), U+65E5
\* (3 bytes).
Chars == {97, 98, 127, 233, 26085}

\* Mostly-ASCII inputs: one U+00E9 between two runs of 'a'.
MixedInputs ==
  {[k \in 1..(a + 1 + b) |-> IF k = a + 1 THEN 233 ELSE 97] :
     a \in 0..MaxPad, b \in 0..MaxPad}

\* "aaaa" repeated 1000 times.
LowEntropyInput == [k \in 1..(4 * 1000) |-> 97]

\* A string of n characters from base on in which no two adjacent characters
\* come twice while n <= K * (K - 1), K prime: the walks 0, d, 2d, ... modulo
\* K for d = 1, 2, ...  LZW learns a new pair at every character of it.
HighEntropy(K, base, n) ==
  [k \in 1..n |-> base + ((((k - 1) % K) * (((k - 1) \div K) + 1)) % K)]

\* The last n characters of s.
Last(s, n) == SubSeq(s, Len(s) - n + 1, Len(s))

\* ASCII of 1922 characters: 1920 new pairs fill the dictionary of LZW up
\* to codeMax, then one known pair costs 3 bytes for 2 characters.
AsciiDense == HighEntropy(47, 48, 1921) \o <<91>>

\* The same followed by a run of 1000 '[' that only LZSS can shorten.
AsciiDenseRun == AsciiDense \o [k \in 1..1000 |-> 91]

\* Mostly ASCII: U+00E9, then 1794 characters of new pairs, which take the
\* codes of LZW over UTF-8 to 0x800.
MixedDense == <<233>> \o Tail(HighEntropy(43, 40, 1795))

\* The same with its last 100 and its last 280 characters repeated: known
\* pairs at 3 bytes each for LZW, one and three matches for LZSS.
MixedDenseShort == MixedDense \o Last(MixedDense, 100)
MixedDenseLong == MixedDense \o Last(MixedDense, 280)

DenseInputs == {AsciiDense, AsciiDenseRun, MixedDenseShort, MixedDenseLong}

\* The entries LZW can learn from code 0x80 on before code is 0x800.
AsciiLimit == 2048 - 128

\* ASCII of that many characters with a new pair at every character.
AsciiFull == HighEntropy(47, 48, AsciiLimit)

CompressInputs ==
  Strings(Chars, MaxLen) \cup MixedInputs \cup {LowEntropyInput} \cup DenseInputs
    \cup {AsciiFull}

\* 'N', 'S', 'U', 'W', 'X', '2' (a Latin page switch of LZSS), U+0100 (an
\* LZW code), line feed (not in TABLE).
DecChars == {78, 83, 85, 87, 88, 50, 256, 10}

DecompressInputs == Strings(DecChars, MaxDecLen)

\* Code units at the edges of the literal pages of LZSS: the four Latin
\* pages, the first Unicode page and its last unit, the second and the last.
WideChars == {0, 39, 40, 97, 122, 131, 132, 233, 1639, 1640, 26085, 65535}

\* ' ', 'a', 's', 'z': strings over them repeat themselves and the prelude.
NarrowChars == {32, 97, 115, 122}

\* A run of 's' longer than two of the longest matches.
RunLen == 250
LongRun == [k \in 1..RunLen |-> 115]

LZSSInputs ==
  Strings(WideChars, MaxWideLen) \cup Strings(NarrowChars, MaxNarrowLen)
    \cup {LongRun}

\* The options given to the LZSS compressor on its own: none, or a budget.
LZSSOptions == {<<>>} \cup {[maxBytes |-> b] : b \in 0..MaxBudget}

\* Characters outside TABLE: line feed and DEL.
JunkChars == {10, 127}

\* The options of an LZW with few codes: literals up to 2, and one code or
\* three.
LZWSmallOptions == {[codeStart |-> 2, codeMax |-> 2 + n] : n \in {1, 3}}

\* The literals 1 and 2, and 3, which is above that codeStart.
SmallChars == {1, 2, 3}

\* The options the dispatcher gives for type W, without the budget.
LZWAsciiOptions == [codeStart |-> 127, codeMax |-> 2047]

\* Options whose codeMax is beyond the last code unit.
LZWBeyondOptions == [codeStart |-> 65533, codeMax |-> 65537]

\* ASCII in which LZW has used its last code well before the end, and then
\* meets known pairs.
FrozenInput == AsciiDense \o Last(AsciiDense, 200)

\* "__proto__" three times.
ProtoInput == ProtoKey \o ProtoKey \o ProtoKey

\* The pairs of options and input of the LZW codec on its own: few codes
\* with literals 1 and 2 and with 3, which is above codeStart; the
\* dispatcher's options for W and the defaults; a codeMax beyond 0xFFFF.
LZWCases ==
  {[options |-> o, input |-> in] :
     o \in LZWSmallOptions, in \in Strings(SmallChars, MaxLZWLen)}
  \cup {[options |-> LZWAsciiOptions, input |-> in] :
          in \in Strings({97, 98}, MaxLZWShort) \cup {FrozenInput, ProtoInput}}
  \cup {[options |-> <<>>, input |-> in] :
          in \in Strings({97, 255}, MaxLZWShort) \cup {ProtoInput}}
  \cup {[options |-> LZWBeyondOptions, input |-> in] :
          in \in Strings({97, 98}, MaxLZWShort)}

(***************************************************************************)
(* The state.                                                              *)
(***************************************************************************)
VARIABLES
  api,         \* the entry point under test: "lzjs" (lzjs.compress, then
               \* lzjs.decompress of what it returned), "decompress"
               \* (lzjs.decompress of a string of the caller's), "lzss"
               \* (an LZSSCompressor, then an LZSSDecompressor on its result)
               \* or "lzw" (an LZW that compresses, then an LZW of the
               \* same options that decompresses its result)
  pc,          \* the position of the program
  input,       \* the caller's string
  opts,        \* the caller's options
  lzjs,        \* the locals of LZJS.prototype.compress
  lzw,         \* the LZW instance that compresses, and its locals
  lzwd,        \* the LZW instance that decompresses, and its locals
  lzss,        \* the LZSSCompressor and its locals
  lzssd,       \* the LZSSDecompressor and its locals
  compressed,  \* what compress returned: the argument of decompress
  decoded,     \* what decompress returned
  tried,       \* the codecs the dispatcher has called, each with what it
               \* returned
  marks,       \* for each step of the LZSS compressor so far, the number
               \* of characters emitted and the offset, after it
  junk,        \* the number of characters inserted into the payload
  reference    \* what the decompressor returned for the payload as the
               \* compressor made it

vars == <<api, pc, input, opts, lzjs, lzw, lzwd, lzss, lzssd, compressed,
          decoded, tried, marks, junk, reference>>

\* No string yet.
Pending == <<-1>>

\* The iterations of a codec's loop that one step takes.
Burst ==
  IF api = "lzss" \/ (api = "lzw" /\ Len(input) < MaxBurst) THEN 1
  ELSE MaxBurst

\* Each loop after at most n more iterations: it goes on while its
\* condition holds and it has not returned.
RECURSIVE LZWCompressRun(_, _)
LZWCompressRun(w, n) ==
  IF n = 0 \/ w.returned \/ ~(w.i < w.len) THEN w
  ELSE LZWCompressRun(LZWCompressIter(w), n - 1)

RECURSIVE LZSSCompressRun(_, _)
LZSSCompressRun(z, n) ==
  IF n = 0 \/ z.returned \/ ~(z.offset < z.dataLen) THEN z
  ELSE LZSSCompressRun(LZSSCompressIter(z), n - 1)

RECURSIVE LZSSDecompressRun(_, _)
LZSSDecompressRun(y, n) ==
  IF n = 0 \/ ~(y.offset < y.len) THEN y
  ELSE LZSSDecompressRun(LZSSDecompressIter(y), n - 1)

RECURSIVE LZWDecompressRun(_, _)
LZWDecompressRun(w, n) ==
  IF n = 0 \/ ~(w.i < w.len) THEN w
  ELSE LZWDecompressRun(LZWDecompressIter(w), n - 1)

InitWith(a, o, in) ==
  /\ api = a
  /\ input = in
  /\ opts = o
  /\ pc = IF a = "decompress" THEN "decompress" ELSE "compress"
  /\ compressed = IF a = "decompress" THEN in ELSE Pending
  /\ lzjs = Idle /\ lzw = Idle /\ lzwd = Idle /\ lzss = Idle /\ lzssd = Idle
  /\ decoded = Pending
  /\ tried = <<>>
  /\ marks = <<>>
  /\ junk = 0
  /\ reference = Pending

Init ==
  \/ \E in \in CompressInputs : InitWith("lzjs", <<>>, in)
  \/ \E in \in DecompressInputs : InitWith("decompress", <<>>, in)

InitLZSS == \E in \in LZSSInputs, o \in LZSSOptions : InitWith("lzss", o, in)

InitLZW == \E c \in LZWCases : InitWith("lzw", c.options, c.input)

(***************************************************************************)
(* lzjs.compress                                                           *)
(***************************************************************************)
\* The call of a codec of the dispatcher: LZW on data (type W), LZW on
\* toUTF8(data) (type U) or LZSS on data (type S).
LZJSCall(l, type) ==
  IF type = 83
    THEN LET z == LZSSCompressEnter(LZJSOptions(l), input)
         IN  /\ lzss' = z
             /\ marks' = <<>>
             /\ pc' = IF z.returned THEN "lzssRet" ELSE "lzss"
             /\ UNCHANGED lzw
    ELSE LET w == LZWCompressEnter(LZJSOptions(l),
                                   IF type = 85 THEN toUTF8(input) ELSE input)
         IN  /\ lzw' = w
             /\ pc' = IF w.returned THEN "lzwRet" ELSE "lzw"
             /\ UNCHANGED <<lzss, marks>>

\* LZJS.prototype.compress up to its first codec (lines 624-645, 654-657,
\* 666-669); the empty string returns at once.
LZJSCompress ==
  /\ pc = "compress" /\ api = "lzjs"
  /\ IF Len(input) = 0
       THEN /\ compressed' = <<>>
            /\ pc' = "decompress"
            /\ UNCHANGED <<lzjs, lzw, lzss, marks>>
       ELSE LET l == LZJSLocals(input)
                type == LZJSFirstType(l.branch)
            IN  /\ lzjs' = l @@ [type |-> type]
                /\ LZJSCall(l, type)
                /\ UNCHANGED compressed
  /\ UNCHANGED <<api, input, opts, lzwd, lzssd, decoded, tried, junk, reference>>

\* The rest of LZJS.prototype.compress after a codec returned result.
LZJSResume(result) ==
  LET f == LZJSFallback(lzjs, lzjs.type, input, result)
  IN  /\ lzjs' = [lzjs EXCEPT !.type = f.type]
      /\ tried' = Append(tried, [type |-> lzjs.type, value |-> result])
      /\ IF f.do = "call"
           THEN /\ LZJSCall(lzjs, f.type)
                /\ UNCHANGED compressed
           ELSE /\ compressed' = Tagged(f.type, f.result)
                /\ pc' = "decompress"
                /\ UNCHANGED <<lzw, lzss, marks>>
      /\ UNCHANGED <<api, input, opts, lzwd, lzssd, decoded, junk, reference>>

\* LZW.prototype.compress returned to the dispatcher.
LZJSAfterLZW == pc = "lzwRet" /\ api = "lzjs" /\ LZJSResume(lzw.value)

\* LZSSCompressor.prototype.compress returned to the dispatcher.
LZJSAfterLZSS == pc = "lzssRet" /\ api = "lzjs" /\ LZJSResume(lzss.value)

\* Iterations of the loop of LZW.prototype.compress.
LZWCompress ==
  /\ pc = "lzw" /\ lzw.i < lzw.len
  /\ lzw' = LZWCompressRun(lzw, Burst)
  /\ pc' = IF lzw'.returned THEN "lzwRet" ELSE "lzw"
  /\ UNCHANGED <<api, input, opts, lzjs, lzwd, lzss, lzssd, compressed, decoded,
                 tried, marks, junk, reference>>

\* The end of LZW.prototype.compress.
LZWCompressEnd ==
  /\ pc = "lzw" /\ ~(lzw.i < lzw.len)
  /\ lzw' = LZWCompressLeave(lzw)
  /\ pc' = "lzwRet"
  /\ UNCHANGED <<api, input, opts, lzjs, lzwd, lzss, lzssd, compressed, decoded,
                 tried, marks, junk, reference>>

\* Iterations of the loop of LZSSCompressor.prototype.compress.
LZSSCompress ==
  /\ pc = "lzss" /\ lzss.offset < lzss.dataLen
  /\ lzss' = LZSSCompressRun(lzss, Burst)
  /\ marks' = Append(marks, [emitted |-> Len(lzss'.result) + Len(lzss'.buffer),
                             offset |-> lzss'.offset])
  /\ pc' = IF lzss'.returned THEN "lzssRet" ELSE "lzss"
  /\ UNCHANGED <<api, input, opts, lzjs, lzw, lzwd, lzssd, compressed, decoded,
                 tried, junk, reference>>

\* The end of LZSSCompressor.prototype.compress.
LZSSCompressEnd ==
  /\ pc = "lzss" /\ ~(lzss.offset < lzss.dataLen)
  /\ lzss' = LZSSCompressLeave(lzss)
  /\ pc' = "lzssRet"
  /\ UNCHANGED <<api, input, opts, lzjs, lzw, lzwd, lzssd, compressed, decoded,
                 tried, marks, junk, reference>>

(***************************************************************************)
(* lzjs.decompress                                                         *)
(***************************************************************************)
\* LZJS.prototype.decompress up to the codec its tag selects (lines
\* 682-713); N, an unknown tag and the empty string return at once.
LZJSDecompress ==
  /\ pc = "decompress" /\ api \in {"lzjs", "decompress"}
  /\ LET r == LZJSRoute(compressed)
     IN  IF r.do = "return"
           THEN decoded' = r.value /\ pc' = "done" /\ UNCHANGED <<lzwd, lzssd>>
         ELSE IF r.do = "S"
           THEN LET y == LZSSDecompressEnter(r.value)
                IN  /\ lzssd' = y
                    /\ pc' = IF y.returned THEN "lzssdRet" ELSE "lzssd"
                    /\ UNCHANGED <<lzwd, decoded>>
         ELSE LET w == LZWDecompressEnter(
                         LZJSDecodeOptions(IF r.do = "W" THEN 87 ELSE 85), r.value)
              IN  /\ lzwd' = w
                  /\ pc' = IF w.returned THEN "lzwdRet" ELSE "lzwd"
                  /\ UNCHANGED <<lzssd, decoded>>
  /\ UNCHANGED <<api, input, opts, lzjs, lzw, lzss, compressed, tried, marks,
                 junk, reference>>

\* Iterations of the loop of LZSSDecompressor.prototype.decompress.
LZSSDecompress ==
  /\ pc = "lzssd" /\ lzssd.offset < lzssd.len
  /\ lzssd' = LZSSDecompressRun(lzssd, Burst)
  /\ UNCHANGED <<api, pc, input, opts, lzjs, lzw, lzwd, lzss, compressed,
                 decoded, tried, marks, junk, reference>>

\* The end of LZSSDecompressor.prototype.decompress.
LZSSDecompressEnd ==
  /\ pc = "lzssd" /\ ~(lzssd.offset < lzssd.len)
  /\ lzssd' = LZSSDecompressLeave(lzssd)
  /\ pc' = "lzssdRet"
  /\ UNCHANGED <<api, input, opts, lzjs, lzw, lzwd, lzss, compressed, decoded,
                 tried, marks, junk, reference>>

\* _decompressByS returns what the LZSS decompressor returned.
LZJSAfterLZSSD ==
  /\ pc = "lzssdRet" /\ api \in {"lzjs", "decompress"}
  /\ decoded' = lzssd.value
  /\ pc' = "done"
  /\ UNCHANGED <<api, input, opts, lzjs, lzw, lzwd, lzss, lzssd, compressed,
                 tried, marks, junk, reference>>

\* Iterations of the loop of LZW.prototype.decompress.
LZWDecompress ==
  /\ pc = "lzwd" /\ lzwd.i < lzwd.len
  /\ lzwd' = LZWDecompressRun(lzwd, Burst)
  /\ UNCHANGED <<api, pc, input, opts, lzjs, lzw, lzss, lzssd, compressed,
                 decoded, tried, marks, junk, reference>>

\* The end of LZW.prototype.decompress.
LZWDecompressEnd ==
  /\ pc = "lzwd" /\ ~(lzwd.i < lzwd.len)
  /\ lzwd' = LZWDecompressLeave(lzwd)
  /\ pc' = "lzwdRet"
  /\ UNCHANGED <<api, input, opts, lzjs, lzw, lzss, lzssd, compressed, decoded,
                 tried, marks, junk, reference>>

\* _decompressByW returns what LZW returned, _decompressByU its toUTF16.
LZJSAfterLZWD ==
  /\ pc = "lzwdRet" /\ api \in {"lzjs", "decompress"}
  /\ decoded' = IF compressed[1] = 85 THEN toUTF16(lzwd.value) ELSE lzwd.value
  /\ pc' = "done"
  /\ UNCHANGED <<api, input, opts, lzjs, lzw, lzwd, lzss, lzssd, compressed,
                 tried, marks, junk, reference>>

(***************************************************************************)
(* The LZSS codec on its own: new LZSSCompressor(opts).compress(input),    *)
(* then new LZSSDecompressor().decompress of the result.                   *)
(***************************************************************************)
LZSSCall ==
  /\ pc = "compress" /\ api = "lzss"
  /\ lzss' = LZSSCompressEnter(opts, input)
  /\ marks' = <<>>
  /\ pc' = IF lzss'.returned THEN "lzssRet" ELSE "lzss"
  /\ UNCHANGED <<api, input, opts, lzjs, lzw, lzwd, lzssd, compressed, decoded,
                 tried, junk, reference>>

\* The caller hands the compressor's result to a decompressor; there is
\* nothing to hand on when the budget was exceeded.
LZSSFeed ==
  /\ pc = "lzssRet" /\ api = "lzss"
  /\ compressed' = lzss.value
  /\ IF lzss.value = False
       THEN pc' = "done" /\ UNCHANGED lzssd
       ELSE /\ lzssd' = LZSSDecompressEnter(lzss.value)
            /\ pc' = IF lzssd'.returned THEN "lzssdRet" ELSE "lzssd"
  /\ UNCHANGED <<api, input, opts, lzjs, lzw, lzwd, lzss, decoded, tried, marks,
                 junk, reference>>

\* The decompressor returned to the caller.
LZSSFinish ==
  /\ pc = "lzssdRet" /\ api = "lzss"
  /\ decoded' = lzssd.value
  /\ pc' = "done"
  /\ UNCHANGED <<api, input, opts, lzjs, lzw, lzwd, lzss, lzssd, compressed,
                 tried, marks, junk, reference>>

(***************************************************************************)
(* The LZW codec on its own: new LZW(opts).compress(input), then           *)
(* new LZW(opts).decompress of the result.                                 *)
(***************************************************************************)
LZWCall ==
  /\ pc = "compress" /\ api = "lzw"
  /\ lzw' = LZWCompressEnter(opts, input)
  /\ pc' = IF lzw'.returned THEN "lzwRet" ELSE "lzw"
  /\ UNCHANGED <<api, input, opts, lzjs, lzwd, lzss, lzssd, compressed, decoded,
                 tried, marks, junk, reference>>

\* The caller hands the result to an LZW of the same options.
LZWFeed ==
  /\ pc = "lzwRet" /\ api = "lzw"
  /\ compressed' = lzw.value
  /\ IF lzw.value = False
       THEN pc' = "done" /\ UNCHANGED lzwd
       ELSE /\ lzwd' = LZWDecompressEnter(opts, lzw.value)
            /\ pc' = IF lzwd'.returned THEN "lzwdRet" ELSE "lzwd"
  /\ UNCHANGED <<api, input, opts, lzjs, lzw, lzss, lzssd, decoded, tried, marks,
                 junk, reference>>

\* LZW.prototype.decompress returned to the caller.
LZWFinish ==
  /\ pc = "lzwdRet" /\ api = "lzw"
  /\ decoded' = lzwd.value
  /\ pc' = "done"
  /\ UNCHANGED <<api, input, opts, lzjs, lzw, lzwd, lzss, lzssd, compressed,
                 tried, marks, junk, reference>>

\* The string s with the character c inserted after its first k characters.
InsertAt(s, k, c) == SubSeq(s, 1, k) \o <<c>> \o SubSeq(s, k + 1, Len(s))

\* The caller inserts one character that is not in TABLE somewhere into the
\* payload and decompresses it again.
InsertJunk ==
  /\ pc = "done" /\ api = "lzss" /\ compressed # False /\ junk < MaxJunk
  /\ \E k \in 0..Len(compressed), c \in JunkChars :
       /\ compressed' = InsertAt(compressed, k, c)
       /\ lzssd' = LZSSDecompressEnter(compressed')
       /\ pc' = IF lzssd'.returned THEN "lzssdRet" ELSE "lzssd"
  /\ junk' = junk + 1
  /\ reference' = IF junk = 0 THEN decoded ELSE reference
  /\ decoded' = Pending
  /\ UNCHANGED <<api, input, opts, lzjs, lzw, lzwd, lzss, tried, marks>>

Next ==
  \/ LZJSCompress
  \/ LZWCompress
  \/ LZWCompressEnd
  \/ LZJSAfterLZW
  \/ LZSSCompress
  \/ LZSSCompressEnd
  \/ LZJSAfterLZSS
  \/ LZJSDecompress
  \/ LZSSDecompress
  \/ LZSSDecompressEnd
  \/ LZJSAfterLZSSD
  \/ LZWDecompress
  \/ LZWDecompressEnd
  \/ LZJSAfterLZWD

NextLZSS ==
  \/ LZSSCall
  \/ LZSSCompress
  \/ LZSSCompressEnd
  \/ LZSSFeed
  \/ LZSSDecompress
  \/ LZSSDecompressEnd
  \/ LZSSFinish

NextLZW ==
  \/ LZWCall
  \/ LZWCompress
  \/ LZWCompressEnd
  \/ LZWFeed
  \/ LZWDecompress
  \/ LZWDecompressEnd
  \/ LZWFinish

\* lzjs.compress and lzjs.decompress.
Spec == Init /\ [][Next]_vars

\* The LZSS codec on its own.
SpecLZSS == InitLZSS /\ [][NextLZSS]_vars

\* The LZW codec on its own.
SpecLZW == InitLZW /\ [][NextLZW]_vars

\* The LZSS codec on its own, with characters inserted into its payload.
SpecJunk == InitLZSS /\ [][NextLZSS \/ InsertJunk]_vars


(* Properties.                                                             *)
(***************************************************************************)
\* The tags.
TagS == 83
TagW == 87
TagU == 85
TagN == 78
Tags == {TagS, TagW, TagU, TagN}

\* compress has returned a string (it is the argument of decompress).
Compressed == api = "lzjs" /\ compressed # Pending

\* The first character of a non-empty string.
TagOf(d) == d[1]

\* C1: for every input s, when lzjs.decompress has returned for what
\* lzjs.compress returned for s, it returned s, whichever tag was selected.
RoundTrip == (api = "lzjs" /\ pc = "done") => decoded = input

\* An ASCII input came back from tag S, chosen after LZW exceeded the budget.
RoundTripAfterFallback ==
  /\ api = "lzjs" /\ pc = "done"
  /\ input = AsciiDenseRun
  /\ TagOf(compressed) = TagS
  /\ decoded = input

\* C2 as stated: a payload tagged S, W or U has at most as many UTF-8 bytes
\* as the input, and the compressed string at most one byte more.
WithinBudget ==
  (Compressed /\ Len(input) > 0) =>
    /\ TagOf(compressed) \in {TagS, TagW, TagU} =>
         byteLength(Tail(compressed)) <= byteLength(input)
    /\ byteLength(compressed) <= byteLength(input) + 1

\* A mostly-ASCII input tagged U came out more than one byte longer than
\* it went in.
BudgetExceeded ==
  /\ Compressed /\ pc = "decompress"
  /\ byteLength(input) = Len(input) + 1
  /\ TagOf(compressed) = TagU
  /\ byteLength(compressed) > byteLength(input) + 1

\* The order in which the shape of s has the codecs tried.
Order(s) ==
  LET u == byteLength(s)
      n == Len(s)
  IN  IF u = n THEN <<TagW, TagS>>
      ELSE IF u > n /\ (9 * u) \div 10 < n THEN <<TagU, TagS>>
      ELSE <<TagS, TagU>>

\* The codec call t stayed within the budget of s.
Fits(s, t) ==
  /\ t.value # False
  /\ (Order(s) = <<TagS, TagU>> /\ t.type = TagU) =>
       byteLength(t.value) <= byteLength(s)

\* C3: the codecs are called in the order of the input's shape, each with
\* maxBytes = u (W with codeStart 0x7F and codeMax 0x7FF on s, U with the
\* defaults on toUTF8(s)), each only after the one before did not fit; the
\* tag is that of the first that fits, N when none does; an ASCII input is
\* never tagged U and another input never W.
SelectionPolicy ==
  /\ (api = "lzjs" /\ pc \in {"lzw", "lzwRet"}) =>
       /\ lzw.maxBytes = byteLength(input)
       /\ lzjs.type = TagW =>
            lzw.codeStart = 127 /\ lzw.codeMax = 2047 /\ lzw.data = input
       /\ lzjs.type = TagU =>
            lzw.codeStart = 255 /\ lzw.codeMax = 65535 /\ lzw.data = toUTF8(input)
  /\ (api = "lzjs" /\ pc = "lzss") =>
       lzss.maxBytes = byteLength(input) /\ lzjs.type = TagS
  /\ (Compressed /\ Len(input) > 0) =>
       LET o == Order(input)
           k == Len(tried)
       IN  /\ k \in 1..2
           /\ \A j \in 1..k : tried[j].type = o[j]
           /\ \A j \in 1..(k - 1) : ~Fits(input, tried[j])
           /\ IF Fits(input, tried[k]) THEN TagOf(compressed) = o[k]
              ELSE k = 2 /\ TagOf(compressed) = TagN
           /\ byteLength(input) = Len(input) => TagOf(compressed) # TagU
           /\ byteLength(input) # Len(input) => TagOf(compressed) # TagW

\* A mostly-ASCII input is tagged S after LZW over UTF-8 exceeded the budget.
SecondCodecSelected ==
  /\ Compressed /\ pc = "decompress"
  /\ Len(tried) = 2 /\ tried[1].type = TagU /\ tried[1].value = False
  /\ TagOf(compressed) = TagS

\* s is a string: a sequence of code units.
IsString(s) == \A k \in 1..Len(s) : s[k] \in 0..65535

\* C4: compress("") is ""; for every other input compress returns a string
\* whose first character is S, W, U or N and whose rest is what the codec of
\* that tag returned, which is not false, or the input itself under N.
AlwaysTagged ==
  Compressed =>
    IF Len(input) = 0 THEN compressed = <<>>
    ELSE /\ compressed # False /\ IsString(compressed)
         /\ Len(compressed) >= 1
         /\ TagOf(compressed) \in Tags
         /\ TagOf(compressed) \in {TagW, TagU} =>
              lzw.value # False /\ Tail(compressed) = lzw.value
         /\ TagOf(compressed) = TagS =>
              lzss.value # False /\ Tail(compressed) = lzss.value
         /\ TagOf(compressed) = TagN => Tail(compressed) = input

\* Both codecs returned false and the input came out under N.
FalseNotSurfaced ==
  /\ Compressed /\ pc = "decompress"
  /\ Len(tried) = 2 /\ tried[1].value = False /\ tried[2].value = False
  /\ compressed = <<TagN>> \o input

\* C5: decompress("") is ""; decompress of a string whose first character
\* is not a tag is that string, with no codec run on it; decompress of
\* "N" + p is p.
PermissiveDecode ==
  /\ pc \in {"lzssd", "lzssdRet", "lzwd", "lzwdRet"} /\ api # "lzss" =>
       Len(compressed) > 0 /\ TagOf(compressed) \in {TagS, TagW, TagU}
  /\ (pc = "done" /\ api \in {"lzjs", "decompress"}) =>
       /\ Len(compressed) = 0 => decoded = <<>>
       /\ (Len(compressed) > 0 /\ TagOf(compressed) \notin Tags) =>
            decoded = compressed
       /\ (Len(compressed) > 0 /\ TagOf(compressed) = TagN) =>
            decoded = Tail(compressed)

\* A string of the caller's that starts with 'X' came back as it was.
UnknownTagReturned ==
  /\ api = "decompress" /\ pc = "done"
  /\ Len(compressed) = MaxDecLen /\ TagOf(compressed) = 88
  /\ decoded = compressed

\* " a z a y a x a w"
PreludeHead == <<32, 97, 32, 122, 32, 97, 32, 121, 32, 97, 32, 120, 32, 97, 32, 119>>

\* C6, amended: the prelude both LZSS codecs start from is 1024 characters
\* long; the pairs alone make the 1024 characters, so that no space is put
\* in front of them, and the first 16 characters are " a z a y a x a w".
PreludeShape ==
  /\ Len(WindowPairs(0, <<>>)) = WINDOW_MAX
  /\ (pc = "lzss" /\ lzss.offset = WINDOW_MAX) =>
       /\ Len(lzss.data) = WINDOW_MAX + Len(input)
       /\ SubSeq(lzss.data, 1, 16) = PreludeHead
       /\ SubSeq(lzss.data, WINDOW_MAX + 1, Len(lzss.data)) = input
  /\ (pc = "lzssd" /\ lzssd.offset = 0) =>
       /\ Len(lzssd.result) = WINDOW_MAX
       /\ SubSeq(lzssd.result, 1, 16) = PreludeHead

\* C6 as stated: the first 16 characters of the prelude are spaces.
PreludeStartsWithSpaces ==
  /\ (pc = "lzss" /\ lzss.offset = WINDOW_MAX) =>
       /\ Len(lzss.data) = WINDOW_MAX + Len(input)
       /\ \A k \in 1..16 : lzss.data[k] = 32
  /\ (pc = "lzssd" /\ lzssd.offset = 0) =>
       /\ Len(lzssd.result) = WINDOW_MAX
       /\ \A k \in 1..16 : lzssd.result[k] = 32

\* The LZSS compressor is about to read its first character, after the
\* prelude.
PreludeInPlace ==
  /\ pc = "lzss" /\ lzss.offset = WINDOW_MAX
  /\ Len(lzss.data) > WINDOW_MAX
  /\ lzss.data[WINDOW_MAX] = 117

\* C7 as stated: after characters outside TABLE were inserted into a payload
\* of the LZSS compressor, the decompressor returns what it returned for the
\* payload itself.
JunkSkipped ==
  (api = "lzss" /\ pc = "done" /\ junk > 0) => decoded = reference

\* A line feed between the opener of a match and its distance: the
\* decompressor returned, and not what it returned for the payload itself.
JunkInsideToken ==
  /\ api = "lzss" /\ pc = "done" /\ junk = 1
  /\ Len(compressed) = 3 /\ compressed[2] = 10
  /\ reference = input
  /\ decoded # reference

\* The characters of TABLE.
Alphabet == {TABLE[k] : k \in 1..TABLE_LENGTH}

\* C8: every table index the LZSS compressor emits a symbol from is in
\* 0..TABLE_LENGTH - 1, whatever the input and the budget, and every
\* character it has emitted or returned is one of TABLE, none of them 0x08,
\* 0x0A..0x0D, 0x5C or 0x7F and above.
OutputAlphabet ==
  (api = "lzss" /\ pc \in {"lzss", "lzssRet"} /\ Len(input) > 0) =>
    /\ \A k \in 1..Len(lzss.used) : lzss.used[k] \in 0..(TABLE_LENGTH - 1)
    /\ \A k \in 1..Len(lzss.buffer) : lzss.buffer[k] \in Alphabet
    /\ lzss.value # False =>
         \A k \in 1..Len(lzss.value) :
           /\ lzss.value[k] \in Alphabet
           /\ lzss.value[k] \notin {8, 10, 11, 12, 13, 92}
           /\ lzss.value[k] < 127

\* U+FFFF has been emitted: CHAR_START, the last Unicode page and the two
\* digits 15 and 39.
LastPageEmitted ==
  /\ api = "lzss" /\ pc = "lzss"
  /\ lzss.used = <<CHAR_START, 44, 15, 39>>

\* C9, amended: compress of "aaaa" repeated 1000 times is tagged W and is
\* 90 characters long, the tag and 89 of LZW: 2.25% of the input's length.
LowEntropyRatio ==
  (Compressed /\ input = LowEntropyInput) =>
    /\ TagOf(compressed) = TagW
    /\ Len(compressed) = 90
    /\ Len(compressed) * 100 < 3 * Len(input)

\* C9 as stated: it is tagged W and shorter than 1% of the input.
LowEntropyBelowOnePercent ==
  (Compressed /\ input = LowEntropyInput) =>
    /\ TagOf(compressed) = TagW
    /\ Len(compressed) * 100 < Len(input)

\* The 4000 characters went through LZW and came back.
LowEntropyCompressed ==
  /\ api = "lzjs" /\ pc = "done" /\ input = LowEntropyInput
  /\ Len(compressed) = 90
  /\ decoded = input

\* The compressor's D: the prelude and the input.
D == createWindow \o input

\* The tokens the decompressor has read whole when it is at offset: those
\* whose last symbol lies before offset.
TokensRead(offset) == {k \in 1..Len(marks) : marks[k].emitted <= offset}

\* The compressor's offset after its k-th token, WINDOW_MAX before the first.
OffsetAfter(k) == IF k = 0 THEN WINDOW_MAX ELSE marks[k].offset

\* The number of symbols emitted with the first k tokens.
EmittedAfter(k) == IF k = 0 THEN 0 ELSE marks[k].emitted

\* C10: without a byte budget, the decompressor fed with the compressor's
\* result holds D[0..offset) after each token, offset being the compressor's
\* after the same token, also when a match is longer than its distance; it
\* stops only between tokens or after the page switch of a literal, holding
\* then what it held before that literal; and it returns the input.
LockStep ==
  /\ (api = "lzss" /\ opts = <<>> /\ pc = "lzssd") =>
       LET k == Cardinality(TokensRead(lzssd.offset))
       IN  /\ lzssd.result = SubSeq(D, 1, OffsetAfter(k))
           /\ lzssd.offset # EmittedAfter(k) =>
                /\ k < Len(marks)
                /\ OffsetAfter(k + 1) = OffsetAfter(k) + 1
                /\ EmittedAfter(k + 1) - lzssd.offset \in {1, 2}
                /\ lzssd.offset - EmittedAfter(k) \in {1, 2}
  /\ (api = "lzss" /\ opts = <<>> /\ pc = "done") => decoded = input

\* The last match was longer than its distance and the input came back.
OverlappingMatchCopied ==
  /\ api = "lzss" /\ opts = <<>> /\ pc = "done" /\ Len(input) > 0
  /\ IsNum(lzss.matchLength) /\ lzss.matchLength > lzss.matchIndex
  /\ lzss.offset = lzss.dataLen
  /\ decoded = input

\* The bounds of a match of the given length at the given distance, with
\* remaining characters from the offset on.
MatchInBounds(length, distance, remaining) ==
  /\ 2 <= length /\ length <= BUFFER_MAX /\ length <= remaining
  /\ 1 <= distance /\ distance <= WINDOW_BUFFER_MAX

\* The compressor's offset before its last iteration.
OffsetBefore ==
  IF Len(marks) = 1 THEN WINDOW_MAX ELSE marks[Len(marks) - 1].offset

\* C11: whenever _search finds a match at the compressor's offset, its
\* length is in 2..BUFFER_MAX and at most what remains of the data, and its
\* distance is in 1..WINDOW_BUFFER_MAX; after an iteration that emitted a
\* match, the recorded length and distance are in these bounds, the opener
\* is in COMPRESS_START..COMPRESS_FIXED_START - 1 for a length of 3 or more
\* and in COMPRESS_FIXED_START..COMPRESS_INDEX - 1 for length 2, and the
\* offset has advanced by the length and is not past the end of the data.
MatchBounds ==
  /\ (api = "lzss" /\ pc = "lzss" /\ lzss.offset < lzss.dataLen) =>
       LET m == LZSSSearch(lzss.data, lzss.dataLen, lzss.offset)
       IN  m.found =>
             MatchInBounds(m.length, m.index, lzss.dataLen - lzss.offset)
  /\ (api = "lzss" /\ pc \in {"lzss", "lzssRet"} /\ Len(marks) > 0
        /\ lzss.lastIndex = -1) =>
       /\ MatchInBounds(lzss.matchLength, lzss.matchIndex,
                        lzss.dataLen - OffsetBefore)
       /\ lzss.matchLength >= 3 =>
            lzss.used[1] \in COMPRESS_START..(COMPRESS_FIXED_START - 1)
       /\ lzss.matchLength = 2 =>
            lzss.used[1] \in COMPRESS_FIXED_START..(COMPRESS_INDEX - 1)
       /\ lzss.offset = OffsetBefore + lzss.matchLength
       /\ lzss.offset <= lzss.dataLen

\* A match of the greatest length has been emitted, with more of the run to
\* come.
LongestMatchEmitted ==
  /\ api = "lzss" /\ pc = "lzss" /\ input = LongRun
  /\ lzss.lastIndex = -1 /\ Len(marks) > 0
  /\ lzss.matchLength = BUFFER_MAX
  /\ lzss.offset < lzss.dataLen

\* The character is that of a code between codeStart + 1 and codeMax.
IsCodeOf(w, x) == \E k \in (w.codeStart + 1)..w.codeMax : x = fromCharCode(k)

\* What the encoder does next: an iteration of its loop, or what follows
\* the loop.
LZWAhead(w) == IF w.i < w.len THEN LZWCompressIter(w) ELSE LZWCompressLeave(w)

LZWRoundTripDone ==
  /\ api = "lzw" /\ pc = "done" /\ Len(input) > 0
  /\ lzw.codeStart < lzw.codeMax
  /\ \A k \in 1..Len(input) : input[k] <= lzw.codeStart

\* The decoder met a code before it had stored it: the j-th code it
\* consumed, counted from 0, is the one it stores at that iteration.
KwKwK == \E j \in 1..(Len(compressed) - 1) : compressed[j + 1] = lzw.codeStart + j

\* C13, as stated: for every codeStart < codeMax and every non-empty string
\* whose code units are at most codeStart, LZW.decompress(LZW.compress(s))
\* is s.
LZWRoundTripAnyCodeMax == LZWRoundTripDone => decoded = input

\* C13, amended: the same for every codeStart < codeMax <= 0xFFFF, where
\* the character of a code is the code.
LZWRoundTrip ==
  (LZWRoundTripDone /\ lzw.codeMax <= 65535) => decoded = input

\* A round trip in which the decoder met a code before it had stored it,
\* the encoder's counter ended beyond codeMax and the decoder's went on
\* further.
LZWRoundTripFrozen ==
  /\ LZWRoundTripDone /\ lzw.codeMax <= 65535
  /\ decoded = input
  /\ KwKwK
  /\ lzw.code = lzw.codeMax + 1
  /\ lzwd.code > lzw.codeMax + 1

\* lzjs.compress is at work on a non-empty ASCII string of at most
\* AsciiLimit characters.
ShortAscii ==
  /\ api = "lzjs" /\ Len(input) > 0 /\ Len(input) <= AsciiLimit
  /\ \A k \in 1..Len(input) : input[k] < 128

\* The bytes charged are at most the characters of the tokens emitted, and
\* a code is charged 2 bytes.
ChargeCovered(w) ==
  IF w.returned THEN w.value # False /\ w.resultBytes <= w.len
  ELSE w.resultBytes <= w.i - Len(w.buffer) /\ w.codeBytes = 2
         /\ w.code < 2048

\* The same after each of the next n iterations of the loop and after what
\* follows the loop.
RECURSIVE ChargeCoveredFor(_, _)
ChargeCoveredFor(w, n) ==
  /\ ChargeCovered(w)
  /\ \/ w.returned
     \/ ~(w.i < w.len) /\ ChargeCovered(LZWCompressLeave(w))
     \/ w.i < w.len /\ (n = 0 \/ ChargeCoveredFor(LZWCompressIter(w), n - 1))

\* C14: for a non-empty ASCII input of at most 1920 characters, what LZW
\* has charged never exceeds the characters of the tokens it has emitted,
\* codeBytes stays 2, LZW does not return false, the LZSS compressor is
\* not called and the result has the tag W.
AsciiAlwaysW ==
  ShortAscii =>
    /\ pc \in {"lzw", "lzwRet"} => ChargeCoveredFor(lzw, Burst)
    /\ pc \notin {"lzss", "lzssRet"} /\ lzss = Idle
    /\ \A k \in 1..Len(tried) : tried[k].type = TagW /\ tried[k].value # False
    /\ compressed # Pending => TagOf(compressed) = TagW

\* The densest input of 1920 characters is compressed with the tag W: LZW
\* has charged every byte of its budget and its counter is one short of
\* 0x800.
AsciiFullTaggedW ==
  /\ ShortAscii /\ input = AsciiFull /\ pc = "done"
  /\ TagOf(compressed) = TagW
  /\ lzw.resultBytes = Len(input)
  /\ lzw.code = 2047

=============================================================================
